---- MODULE Spec2Model ----
(***************************************************************************)
(* The resumable batch state manager of data_collection: BatchFileManager  *)
(* (batch_file_manager.py), RecordIndex (record_index.py) and BatchChunk   *)
(* (batch_chunk.py), as one state machine over a file system.              *)
(*                                                                         *)
(* Python str values (paths, folder names, file names, keys, file text)    *)
(* are sequences of one-character strings, so that the regular             *)
(* expressions, split, splitlines, int() and the f-string formatting of    *)
(* the source are computed character by character.  An optional value is   *)
(* None (the empty tuple) or Some(v) (the one-element tuple).              *)
(***************************************************************************)
EXTENDS Integers, Sequences, FiniteSets, TLC

VARIABLES
    today,                  \* the calendar day datetime.now() falls on (day of January 2024)
    now,                    \* the instant datetime.now() returns
    fs,                     \* the file system: directories, text files, .jsonl result files
    mgrs,                   \* the BatchFileManager objects constructed so far, oldest first
    ghost,                  \* history kept beside each manager's RecordIndex objects
    last,                   \* the last call made and what it returned or raised
    previous_batch_folder   \* the previous_batch_folder argument of the last constructor call

vars == <<today, now, fs, mgrs, ghost, last, previous_batch_folder>>

(***************************************************************************)
(* Bounds of the model.                                                    *)
(***************************************************************************)
MaxPieces == 4      \* pieces a previous-batch path argument is put together from
MaxTime == 2        \* instants the clock passes through after 0
MaxWrites == 2      \* result lines written to a chunk where the capacity is not the subject
MaxStarts == 2      \* start_batch_run calls counted on one manager (later calls are not counted)
MaxRefused == 2     \* write calls made on a full chunk
MaxDays == 2        \* calendar days the runs spread over
MaxBatches == 3     \* BatchFileManager objects constructed where the numbering is the subject
MaxOpens == 2       \* BatchFileManager objects constructed where the RecordIndex is the subject
MaxLedgerOps == 2   \* add_record, add_multiple_records and finish_batch calls made
MaxSeedWrites == 1  \* result lines written to a chunk where the seeding is the subject

(***************************************************************************)
(* Optional values and text.                                               *)
(***************************************************************************)
None == <<>>
Some(v) == <<v>>

Digits == {"0", "1", "2", "3", "4", "5", "6", "7", "8", "9"}

DigitVal(c) ==
    CASE c = "0" -> 0 [] c = "1" -> 1 [] c = "2" -> 2 [] c = "3" -> 3 [] c = "4" -> 4
      [] c = "5" -> 5 [] c = "6" -> 6 [] c = "7" -> 7 [] c = "8" -> 8 [] c = "9" -> 9

DigitChar(d) == <<"0", "1", "2", "3", "4", "5", "6", "7", "8", "9">>[d + 1]

AllDigits(s) == \A i \in 1..Len(s) : s[i] \in Digits

\* str.strip() of the white space the model's alphabet has (the line feed).
RECURSIVE Strip(_)
Strip(s) ==
    IF s = <<>> THEN s
    ELSE IF s[1] = "\n" THEN Strip(Tail(s))
    ELSE IF s[Len(s)] = "\n" THEN Strip(SubSeq(s, 1, Len(s) - 1))
    ELSE s

RECURSIVE DecimalValue(_)
DecimalValue(ds) ==
    IF ds = <<>> THEN 0
    ELSE 10 * DecimalValue(SubSeq(ds, 1, Len(ds) - 1)) + DigitVal(ds[Len(ds)])

\* int(s) for a string of decimal digits, surrounding white space stripped.
StrToInt(s) == DecimalValue(Strip(s))

\* str(n), the {n} of an f-string, for n >= 0.
RECURSIVE IntToStr(_)
IntToStr(n) ==
    IF n < 10 THEN <<DigitChar(n)>>
    ELSE IntToStr(n \div 10) \o <<DigitChar(n % 10)>>

StartsWith(s, t) == Len(s) >= Len(t) /\ SubSeq(s, 1, Len(t)) = t
EndsWith(s, t) == Len(s) >= Len(t) /\ SubSeq(s, Len(s) - Len(t) + 1, Len(s)) = t

\* s.split(sep) for a one-character separator.
RECURSIVE SplitChar(_, _)
SplitChar(s, sep) ==
    LET hits == {i \in 1..Len(s) : s[i] = sep} IN
    IF hits = {} THEN <<s>>
    ELSE LET i == CHOOSE h \in hits : \A g \in hits : h <= g IN
         <<SubSeq(s, 1, i - 1)>> \o SplitChar(SubSeq(s, i + 1, Len(s)), sep)

\* sep.join(parts)
RECURSIVE JoinWith(_, _)
JoinWith(parts, sep) ==
    IF parts = <<>> THEN <<>>
    ELSE IF Len(parts) = 1 THEN parts[1]
    ELSE parts[1] \o sep \o JoinWith(Tail(parts), sep)

RECURSIVE Flatten(_)
Flatten(parts) == IF parts = <<>> THEN <<>> ELSE parts[1] \o Flatten(Tail(parts))

\* The positions at which the `$` of a Python regular expression (no MULTILINE)
\* matches: the end of the string, and just before a line feed that ends it.
DollarPositions(s) ==
    {Len(s)} \cup (IF Len(s) > 0 /\ s[Len(s)] = "\n" THEN {Len(s) - 1} ELSE {})

S_batch_ == <<"_", "b", "a", "t", "c", "h", "_">>

(***************************************************************************)
(* Paths: os.path.join, os.path.normpath, os.path.abspath (posixpath).     *)
(***************************************************************************)
Cwd == <<"/", "w">>
DotDotDotDot == <<".", ".", "/", ".", ".">>
DotDot == <<".", ".">>

PathJoin(a, b) ==
    IF StartsWith(b, <<"/">>) THEN b
    ELSE IF a = <<>> \/ EndsWith(a, <<"/">>) THEN a \o b
    ELSE a \o <<"/">> \o b

RECURSIVE NormComps(_, _, _)
NormComps(comps, new, initial_slashes) ==
    IF comps = <<>> THEN new
    ELSE LET comp == comps[1] IN
         IF comp = <<>> \/ comp = <<".">> THEN NormComps(Tail(comps), new, initial_slashes)
         ELSE IF comp # DotDot
                 \/ (initial_slashes = 0 /\ new = <<>>)
                 \/ (new # <<>> /\ new[Len(new)] = DotDot)
              THEN NormComps(Tail(comps), Append(new, comp), initial_slashes)
         ELSE IF new # <<>>
              THEN NormComps(Tail(comps), SubSeq(new, 1, Len(new) - 1), initial_slashes)
         ELSE NormComps(Tail(comps), new, initial_slashes)

NormPath(p) ==
    IF p = <<>> THEN <<".">>
    ELSE LET initial_slashes ==
                 IF ~StartsWith(p, <<"/">>) THEN 0
                 ELSE IF StartsWith(p, <<"/", "/">>) /\ ~StartsWith(p, <<"/", "/", "/">>) THEN 2
                 ELSE 1
             joined == JoinWith(NormComps(SplitChar(p, "/"), <<>>, initial_slashes), <<"/">>)
             path == (IF initial_slashes = 2 THEN <<"/", "/">>
                      ELSE IF initial_slashes = 1 THEN <<"/">> ELSE <<>>) \o joined
         IN IF path = <<>> THEN <<".">> ELSE path

AbsPath(p) == NormPath(IF StartsWith(p, <<"/">>) THEN p ELSE PathJoin(Cwd, p))

(***************************************************************************)
(* BatchFileManager._set_up_from_previous_batch_folder                     *)
(***************************************************************************)
\* previous_batch_folder.split("/")[-1]
LastSegment(path) == LET parts == SplitChar(path, "/") IN parts[Len(parts)]

\* re.search(r"_batch_(\d+)$", seg): None, or Some(group 1) of the leftmost match,
\* \d+ taking the longest run of digits that lets `$` match.
ReSearchBatchSuffix(seg) ==
    LET matches == {m \in (1..Len(seg)) \X DollarPositions(seg) :
                       /\ m[1] + 7 <= m[2]
                       /\ SubSeq(seg, m[1], m[1] + 6) = S_batch_
                       /\ AllDigits(SubSeq(seg, m[1] + 7, m[2]))}
    IN IF matches = {} THEN None
       ELSE LET m == CHOOSE x \in matches :
                         \A y \in matches : x[1] < y[1] \/ (x[1] = y[1] /\ x[2] >= y[2])
            IN Some(SubSeq(seg, m[1] + 7, m[2]))

\* What the method returns ([raised |-> "none"]) or raises.
SetUpFromPreviousBatchFolder(path) ==
    LET match_previous_batch_number == ReSearchBatchSuffix(LastSegment(path)) IN
    IF match_previous_batch_number # None
    THEN [raised |-> "none",
          batch_number |-> Some(StrToInt(match_previous_batch_number[1]) + 1),
          data_folder |-> Some(AbsPath(PathJoin(path, DotDotDotDot)))]
    ELSE [raised |-> "ValueError", batch_number |-> None, data_folder |-> None]

(***************************************************************************)
(* The file system.  dirs is the set of directories, files maps the path   *)
(* of each text file to its text, jsonl maps the path of each result file  *)
(* to its number of lines: a result line is one json.dumps output          *)
(* (Article.to_json), which holds no line break, so a result file is       *)
(* known by how many lines were written to it.                             *)
(***************************************************************************)
EmptyFs == [dirs |-> {Cwd}, files |-> <<>>, jsonl |-> <<>>]

PathExists(f, p) == p \in f.dirs \/ p \in DOMAIN f.files \/ p \in DOMAIN f.jsonl

LastSlash(p) ==
    LET hits == {i \in 1..Len(p) : p[i] = "/"} IN
    IF hits = {} THEN 0 ELSE CHOOSE h \in hits : \A g \in hits : h >= g

RECURSIVE RStripSlash(_)
RStripSlash(p) ==
    IF p # <<>> /\ p[Len(p)] = "/" THEN RStripSlash(SubSeq(p, 1, Len(p) - 1)) ELSE p

\* os.path.dirname, os.path.basename
Dirname(p) ==
    LET head == SubSeq(p, 1, LastSlash(p)) IN
    IF RStripSlash(head) = <<>> THEN head ELSE RStripSlash(head)

Basename(p) == SubSeq(p, LastSlash(p) + 1, Len(p))

\* The directories os.makedirs(p) makes: p and each missing ancestor.
RECURSIVE MissingDirs(_, _)
MissingDirs(f, p) ==
    IF p = <<>> \/ RStripSlash(p) = <<>> \/ p \in f.dirs THEN {}
    ELSE {p} \cup (IF Dirname(p) = p THEN {} ELSE MissingDirs(f, Dirname(p)))

\* os.makedirs(p, exist_ok=True): an existing folder is taken as made.
Mut_MakeDirsExistOk(f, p) ==
    [raised |-> "none", fs |-> [f EXCEPT !.dirs = @ \cup MissingDirs(f, p)]]

\* os.makedirs(p): FileExistsError when p exists.
MakeDirs(f, p) ==
    IF PathExists(f, p) THEN [raised |-> "FileExistsError", fs |-> f]
    ELSE [raised |-> "none", fs |-> [f EXCEPT !.dirs = @ \cup MissingDirs(f, p)]]

\* open(p, "w").write(text), closed
WriteFile(f, p, text) == [f EXCEPT !.files = (p :> text) @@ @]

\* open(p, "a").write(text), closed
AppendFile(f, p, text) ==
    [f EXCEPT !.files = (p :> ((IF p \in DOMAIN @ THEN @[p] ELSE <<>>) \o text)) @@ @]

\* str.splitlines(), for text whose only line break is the line feed.
RECURSIVE SplitLines(_)
SplitLines(text) ==
    IF text = <<>> THEN <<>>
    ELSE LET hits == {i \in 1..Len(text) : text[i] = "\n"} IN
         IF hits = {} THEN <<text>>
         ELSE LET i == CHOOSE h \in hits : \A g \in hits : h <= g IN
              <<SubSeq(text, 1, i - 1)>> \o SplitLines(SubSeq(text, i + 1, Len(text)))

Range(seq) == {seq[i] : i \in 1..Len(seq)}

\* The orders in which iterating a Python set may give its elements.
Orders(S) == {o \in [1..Cardinality(S) -> S] : Range(o) = S}

(***************************************************************************)
(* RecordIndex                                                             *)
(***************************************************************************)
VisitedFile ==
    <<"v", "i", "s", "i", "t", "e", "d", "_", "a", "r", "t", "i", "c", "l", "e", "s",
      ".", "t", "x", "t">>
FailedFile ==
    <<"f", "a", "i", "l", "e", "d", "_", "a", "r", "t", "i", "c", "l", "e", "s",
      ".", "t", "x", "t">>

\* _initialise_from_previous_batch that never copies.
Mut_InitialiseWithoutCopy(f, prev, file_name, record_index_file) ==
    WriteFile(f, record_index_file, <<>>)

\* RecordIndex._initialise_from_previous_batch: the file system it leaves.
InitialiseFromPreviousBatch(f, prev, file_name, record_index_file) ==
    LET source_file == PathJoin(prev, file_name) IN
    IF source_file \in DOMAIN f.files
    THEN WriteFile(f, record_index_file, f.files[source_file])
    ELSE WriteFile(f, record_index_file, <<>>)

\* RecordIndex._load_record_index_from_file
LoadRecordIndexFromFile(f, record_index_file) ==
    Range(SplitLines(f.files[record_index_file]))

\* RecordIndex(batch_folder, previous_batch_folder, file_name): the object and
\* the file system after __post_init__.
RecordIndexPostInit(f, batch_folder, prev, file_name) ==
    LET record_index_file == PathJoin(batch_folder, file_name)
        f1 == IF prev # None
              THEN InitialiseFromPreviousBatch(f, prev[1], file_name, record_index_file)
              ELSE WriteFile(f, record_index_file, <<>>)
    IN [fs |-> f1,
        obj |-> [batch_folder |-> batch_folder,
                 previous_batch_folder |-> prev,
                 file_name |-> file_name,
                 records |-> LoadRecordIndexFromFile(f1, record_index_file),
                 number_of_records |-> 0,
                 record_index_file |-> record_index_file,
                 number_of_files |-> 1,
                 is_batch_finished |-> FALSE]]

\* The text _save_specified_records_to_file appends, the set iterated in order o.
RECURSIVE LinesText(_)
LinesText(o) == IF o = <<>> THEN <<>> ELSE o[1] \o <<"\n">> \o LinesText(Tail(o))

\* _save_specified_records_to_file appending to the ledger file of the previous
\* batch folder when there is one, as if the seeded file were a link to it.
Mut_SaveSpecifiedToPreviousBatch(f, idx, o) ==
    IF idx.previous_batch_folder # None
    THEN AppendFile(f, PathJoin(idx.previous_batch_folder[1], idx.file_name), LinesText(o))
    ELSE AppendFile(f, idx.record_index_file, LinesText(o))

\* RecordIndex._save_specified_records_to_file
SaveSpecifiedRecordsToFile(f, idx, o) == AppendFile(f, idx.record_index_file, LinesText(o))

\* add_record that appends to the file and leaves self.records as it was.
Mut_AddRecordFileOnly(f, idx, record_to_add, write_to_file) ==
    [fs |-> IF write_to_file THEN SaveSpecifiedRecordsToFile(f, idx, <<record_to_add>>) ELSE f,
     obj |-> idx]

\* RecordIndex.add_record
AddRecord(f, idx, record_to_add, write_to_file) ==
    [fs |-> IF write_to_file THEN SaveSpecifiedRecordsToFile(f, idx, <<record_to_add>>) ELSE f,
     obj |-> [idx EXCEPT !.records = @ \cup {record_to_add}]]

\* add_multiple_records assigning the set handed in, not updating with it.
Mut_AddMultipleRecordsReplaces(f, idx, o, write_to_file) ==
    [fs |-> IF write_to_file THEN SaveSpecifiedRecordsToFile(f, idx, o) ELSE f,
     obj |-> [idx EXCEPT !.records = Range(o)]]

\* RecordIndex.add_multiple_records, records_to_add iterated in order o.
AddMultipleRecords(f, idx, o, write_to_file) ==
    [fs |-> IF write_to_file THEN SaveSpecifiedRecordsToFile(f, idx, o) ELSE f,
     obj |-> [idx EXCEPT !.records = @ \cup Range(o)]]

\* A function without the argument x.
Without(fn, x) == [y \in DOMAIN fn \ {x} |-> fn[y]]

\* shutil.move(src, dst) of a file onto a file path: os.rename.
MoveFile(f, src, dst) ==
    [f EXCEPT !.files = (dst :> f.files[src]) @@ Without(f.files, src)]

\* _save_all_records_to_file that backs the file up and writes no record.
Mut_SaveAllWritesNothing(f, idx, o) ==
    LET number_of_files == idx.number_of_files + 1
        back_up_file_name == SplitChar(idx.file_name, ".")[1] \o <<"_">>
                                 \o IntToStr(number_of_files) \o <<".", "t", "x", "t">>
        moved == MoveFile(f, idx.record_index_file, PathJoin(idx.batch_folder, back_up_file_name))
    IN [fs |-> WriteFile(moved, idx.record_index_file, <<>>),
        obj |-> [idx EXCEPT !.number_of_files = number_of_files]]

\* _save_all_records_to_file that rewrites the file without backing it up first.
Mut_SaveAllWithoutBackup(f, idx, o) ==
    [fs |-> WriteFile(f, idx.record_index_file, LinesText(o)),
     obj |-> [idx EXCEPT !.number_of_files = @ + 1]]

\* _save_all_records_to_file that leaves the backup counter as it was.
Mut_SaveAllKeepsCounter(f, idx, o) ==
    LET number_of_files == idx.number_of_files + 1
        back_up_file_name == SplitChar(idx.file_name, ".")[1] \o <<"_">>
                                 \o IntToStr(number_of_files) \o <<".", "t", "x", "t">>
        moved == MoveFile(f, idx.record_index_file, PathJoin(idx.batch_folder, back_up_file_name))
    IN [fs |-> WriteFile(moved, idx.record_index_file, LinesText(o)),
        obj |-> idx]

\* RecordIndex._save_all_records_to_file, self.records iterated in order o:
\* the object and the file system it leaves.
SaveAllRecordsToFile(f, idx, o) ==
    LET number_of_files == idx.number_of_files + 1
        back_up_file_name == SplitChar(idx.file_name, ".")[1] \o <<"_">>
                                 \o IntToStr(number_of_files) \o <<".", "t", "x", "t">>
        back_up_record_index_file == PathJoin(idx.batch_folder, back_up_file_name)
        moved == MoveFile(f, idx.record_index_file, back_up_record_index_file)
    IN [fs |-> WriteFile(moved, idx.record_index_file, LinesText(o)),
        obj |-> [idx EXCEPT !.number_of_files = number_of_files]]

\* RecordIndex.finish_batch
FinishBatch(f, idx, o) ==
    SaveAllRecordsToFile(f, [idx EXCEPT !.is_batch_finished = TRUE], o)

(***************************************************************************)
(* BatchChunk                                                              *)
(***************************************************************************)
MAX_LINES_RESULTS_FILE == 100000

S_results == <<"_", "s", "c", "r", "a", "p", "i", "n", "g", "_", "r", "e", "s", "u", "l", "t", "s", "_">>

\* BatchChunk(batch_number, chunk_number, batch_folder): object and file system
\* after __post_init__.
BatchChunkPostInit(f, batch_number, chunk_number, batch_folder) ==
    LET filename == <<"b", "a", "t", "c", "h", "_">> \o IntToStr(batch_number)
                        \o S_results \o IntToStr(chunk_number)
        results_file == PathJoin(batch_folder, filename \o <<".", "j", "s", "o", "n", "l">>)
    IN [fs |-> [f EXCEPT !.jsonl = (results_file :> 0) @@ @],
        obj |-> [batch_number |-> batch_number,
                 chunk_number |-> chunk_number,
                 batch_folder |-> batch_folder,
                 results_file |-> results_file,
                 number_of_lines |-> 0,
                 time_start |-> None,
                 time_end |-> None,
                 time_elapsed |-> None,
                 is_finished |-> FALSE]]

\* write_line_to_results_file with the capacity test one off (> for >=).
Mut_WriteLineOffByOne(f, chunk) ==
    IF chunk.number_of_lines > MAX_LINES_RESULTS_FILE
    THEN [ret |-> "False", fs |-> f, obj |-> chunk]
    ELSE [ret |-> "True",
          fs |-> [f EXCEPT !.jsonl[chunk.results_file] = @ + 1],
          obj |-> [chunk EXCEPT !.number_of_lines = @ + 1]]

\* BatchChunk.write_line_to_results_file(line, file), file being the chunk's
\* results file opened for appending.
WriteLineToResultsFile(f, chunk) ==
    IF chunk.number_of_lines >= MAX_LINES_RESULTS_FILE
    THEN [ret |-> "False", fs |-> f, obj |-> chunk]
    ELSE [ret |-> "True",
          fs |-> [f EXCEPT !.jsonl[chunk.results_file] = @ + 1],
          obj |-> [chunk EXCEPT !.number_of_lines = @ + 1]]

\* finish_chunk without the test of time_start: the subtraction then fails on
\* None after time_end and is_finished were set.
Mut_FinishChunkNoStartCheck(chunk, t) ==
    IF chunk.is_finished THEN [ret |-> "False", obj |-> chunk]
    ELSE [ret |-> "True",
          obj |-> [chunk EXCEPT !.time_end = Some(t),
                                !.is_finished = TRUE,
                                !.time_elapsed = IF chunk.time_start = None THEN None
                                                 ELSE Some(t - chunk.time_start[1])]]

\* finish_chunk without the test of is_finished.
Mut_FinishChunkNoFinishedCheck(chunk, t) ==
    IF chunk.time_start = None THEN [ret |-> "False", obj |-> chunk]
    ELSE [ret |-> "True",
          obj |-> [chunk EXCEPT !.time_end = Some(t),
                                !.is_finished = TRUE,
                                !.time_elapsed = Some(t - chunk.time_start[1])]]

\* BatchChunk.finish_chunk, datetime.now() returning t.
FinishChunk(chunk, t) ==
    IF chunk.is_finished THEN [ret |-> "False", obj |-> chunk]
    ELSE IF chunk.time_start = None THEN [ret |-> "False", obj |-> chunk]
    ELSE [ret |-> "True",
          obj |-> [chunk EXCEPT !.time_end = Some(t),
                                !.is_finished = TRUE,
                                !.time_elapsed = Some(t - chunk.time_start[1])]]

(***************************************************************************)
(* BatchFileManager                                                        *)
(***************************************************************************)
S_staging == <<"s", "t", "a", "g", "i", "n", "g">>
S_slash_data == <<"/", "d", "a", "t", "a">>
DataRoot == Cwd \o S_slash_data

\* The first place t occurs in s, 0 if none.
FindStr(s, t) ==
    LET hits == {i \in 1..(Len(s) - Len(t) + 1) : SubSeq(s, i, i + Len(t) - 1) = t} IN
    IF hits = {} THEN 0 ELSE CHOOSE h \in hits : \A g \in hits : h <= g

\* s.split(t)
RECURSIVE SplitStr(_, _)
SplitStr(s, t) ==
    LET i == FindStr(s, t) IN
    IF i = 0 THEN <<s>>
    ELSE <<SubSeq(s, 1, i - 1)>> \o SplitStr(SubSeq(s, i + Len(t), Len(s)), t)

\* re.compile(r"^\d{8}_batch_\d+$").match(name)
ReMatchBatchFolder(name) ==
    \E e \in DollarPositions(name) :
        /\ e >= 16
        /\ AllDigits(SubSeq(name, 1, 8))
        /\ SubSeq(name, 9, 15) = S_batch_
        /\ AllDigits(SubSeq(name, 16, e))

\* int(f.split("_batch_")[1])
BatchFolderNumber(name) == StrToInt(SplitStr(name, S_batch_)[2])

\* [f.name for f in os.scandir(staging_folder) if f.is_dir()]
Subfolders(f, staging_folder) ==
    {Basename(d) : d \in {x \in f.dirs : x # staging_folder /\ Dirname(x) = staging_folder}}

SetMax(S) == CHOOSE x \in S : \A y \in S : x >= y

\* _get_recent_batch_history taking the number of whichever batch folder is
\* listed first, not the maximum.
Mut_GetRecentBatchHistoryFirstListed(f, data_folder) ==
    LET staging_folder == PathJoin(data_folder, S_staging)
        f1 == IF ~PathExists(f, staging_folder) THEN MakeDirs(f, staging_folder).fs ELSE f
        batch_folders == {n \in Subfolders(f1, staging_folder) : ReMatchBatchFolder(n)}
    IN IF batch_folders # {}
       THEN {[fs |-> f1,
              previous_batch_folder |-> Some(PathJoin(staging_folder, n)),
              previous_batch_number |-> Some(BatchFolderNumber(n))] : n \in batch_folders}
       ELSE {[fs |-> f1, previous_batch_folder |-> None, previous_batch_number |-> None]}

\* BatchFileManager._get_recent_batch_history: what it may return, one result for
\* each folder os.scandir may list first among those holding the maximum, with
\* the file system it leaves.
GetRecentBatchHistory(f, data_folder) ==
    LET staging_folder == PathJoin(data_folder, S_staging)
        f1 == IF ~PathExists(f, staging_folder) THEN MakeDirs(f, staging_folder).fs ELSE f
        batch_folders == {n \in Subfolders(f1, staging_folder) : ReMatchBatchFolder(n)}
    IN IF batch_folders # {}
       THEN LET previous_batch_number == SetMax({BatchFolderNumber(n) : n \in batch_folders})
            IN {[fs |-> f1,
                 previous_batch_folder |-> Some(PathJoin(staging_folder, n)),
                 previous_batch_number |-> Some(previous_batch_number)] :
                   n \in {x \in batch_folders : BatchFolderNumber(x) = previous_batch_number}}
       ELSE {[fs |-> f1, previous_batch_folder |-> None, previous_batch_number |-> None]}

\* BatchFileManager.set_up_from_data_path_or_nothing, for a data_path given.
SetUpFromDataPathOrNothing(f, data_path) ==
    LET data_folder == IF EndsWith(data_path, S_slash_data) THEN data_path
                       ELSE data_path \o S_slash_data
    IN {[raised |-> "none",
         fs |-> h.fs,
         batch_number |-> IF h.previous_batch_number # None /\ h.previous_batch_number[1] # 0
                          THEN h.previous_batch_number[1] + 1 ELSE 1,
         data_folder |-> data_folder,
         previous_batch_folder |-> h.previous_batch_folder] :
           h \in GetRecentBatchHistory(f, data_folder)}

\* datetime.now().strftime('%Y%m%d') on day `day` of January 2024.
StrfTimeYmd(day) ==
    <<"2", "0", "2", "4", "0", "1">> \o (IF day < 10 THEN <<"0">> ELSE <<>>) \o IntToStr(day)

\* BatchFileManager._create_new_batch_folder
CreateNewBatchFolder(f, day, data_folder, batch_number) ==
    LET staging_folder == PathJoin(data_folder, S_staging)
        new_batch_folder_name == StrfTimeYmd(day) \o S_batch_ \o IntToStr(batch_number)
        new_batch_folder == PathJoin(staging_folder, new_batch_folder_name)
        made == MakeDirs(f, new_batch_folder)
    IN [raised |-> made.raised, fs |-> made.fs, batch_folder |-> new_batch_folder]

\* __post_init__ that makes a second chunk beside the first.
Mut_SetUpBatchTwoChunks(day, setup) ==
    LET folder == CreateNewBatchFolder(setup.fs, day, setup.data_folder, setup.batch_number) IN
    IF folder.raised # "none" THEN [raised |-> folder.raised, fs |-> folder.fs, mgr |-> None]
    ELSE LET visited == RecordIndexPostInit(folder.fs, folder.batch_folder,
                                            setup.previous_batch_folder, VisitedFile)
             failed == RecordIndexPostInit(visited.fs, folder.batch_folder,
                                           setup.previous_batch_folder, FailedFile)
             chunk == BatchChunkPostInit(failed.fs, setup.batch_number, 1, folder.batch_folder)
             second == BatchChunkPostInit(chunk.fs, setup.batch_number, 2, folder.batch_folder)
         IN [raised |-> "none",
             fs |-> second.fs,
             mgr |-> Some([data_folder |-> setup.data_folder,
                           previous_batch_folder |-> setup.previous_batch_folder,
                           batch_number |-> setup.batch_number,
                           batch_folder |-> folder.batch_folder,
                           visited_articles |-> visited.obj,
                           failed_articles |-> failed.obj,
                           active_chunk |-> 1,
                           chunks |-> <<chunk.obj, second.obj>>,
                           time_start |-> None,
                           time_end |-> None])]

\* BatchFileManager.__post_init__ from line 69 on: the batch folder, the two
\* RecordIndex objects and the first BatchChunk.
SetUpBatch(day, setup) ==
    LET folder == CreateNewBatchFolder(setup.fs, day, setup.data_folder, setup.batch_number) IN
    IF folder.raised # "none" THEN [raised |-> folder.raised, fs |-> folder.fs, mgr |-> None]
    ELSE LET visited == RecordIndexPostInit(folder.fs, folder.batch_folder,
                                            setup.previous_batch_folder, VisitedFile)
             failed == RecordIndexPostInit(visited.fs, folder.batch_folder,
                                           setup.previous_batch_folder, FailedFile)
             chunk == BatchChunkPostInit(failed.fs, setup.batch_number, 1, folder.batch_folder)
         IN [raised |-> "none",
             fs |-> chunk.fs,
             mgr |-> Some([data_folder |-> setup.data_folder,
                           previous_batch_folder |-> setup.previous_batch_folder,
                           batch_number |-> setup.batch_number,
                           batch_folder |-> folder.batch_folder,
                           visited_articles |-> visited.obj,
                           failed_articles |-> failed.obj,
                           active_chunk |-> 1,
                           chunks |-> <<chunk.obj>>,
                           time_start |-> None,
                           time_end |-> None])]

\* __post_init__ making the staging folder of the path it was given before it
\* looks at the folder name.
Mut_BatchFileManagerStagingFirst(f, day, data_folder, prev) ==
    IF prev # None
    THEN LET r == SetUpFromPreviousBatchFolder(prev[1])
             f1 == MakeDirs(f, PathJoin(prev[1], S_staging)).fs
         IN IF r.raised # "none" THEN {[raised |-> r.raised, fs |-> f1, mgr |-> None]}
            ELSE {SetUpBatch(day, [fs |-> f1,
                                   batch_number |-> r.batch_number[1],
                                   data_folder |-> r.data_folder[1],
                                   previous_batch_folder |-> prev])}
    ELSE {SetUpBatch(day, s) : s \in SetUpFromDataPathOrNothing(f, data_folder[1])}

\* BatchFileManager(data_folder, previous_batch_folder): the outcomes of
\* __post_init__, each the exception raised if any, the file system left and
\* the object constructed.
BatchFileManager(f, day, data_folder, prev) ==
    IF prev # None
    THEN LET r == SetUpFromPreviousBatchFolder(prev[1]) IN
         IF r.raised # "none" THEN {[raised |-> r.raised, fs |-> f, mgr |-> None]}
         ELSE {SetUpBatch(day, [fs |-> f,
                                batch_number |-> r.batch_number[1],
                                data_folder |-> r.data_folder[1],
                                previous_batch_folder |-> prev])}
    ELSE {SetUpBatch(day, s) : s \in SetUpFromDataPathOrNothing(f, data_folder[1])}

\* start_batch_run that starts the active chunk as well.
Mut_StartBatchRunStartsChunk(mgr, t) ==
    [mgr EXCEPT !.time_start = Some(t), !.chunks[mgr.active_chunk].time_start = Some(t)]

\* BatchFileManager.start_batch_run, datetime.now() returning t.
StartBatchRun(mgr, t) == [mgr EXCEPT !.time_start = Some(t)]

(***************************************************************************)
(* History: what was loaded into and passed to each RecordIndex, how many  *)
(* write calls each manager's chunk has had and whether one was refused,   *)
(* and whether the process that held the manager was stopped in the middle *)
(* of a call.                                                              *)
(***************************************************************************)
\* loaded: the keys loaded at open; passed: the keys handed to add calls; calls:
\* the add calls made; flushed: the keys loaded, handed to an add call that wrote
\* to the file, or in memory at a finish_batch call; unwritten: some add call
\* did not write to the file; unflushed: one did since the last finish_batch;
\* finished: the finish_batch calls that returned; terminated: the file as
\* opened was empty or ended with a line feed.
NewIndexGhost(f, idx) ==
    [loaded |-> idx.records, passed |-> {}, calls |-> 0, flushed |-> idx.records,
     unwritten |-> FALSE, unflushed |-> FALSE, finished |-> 0,
     terminated |-> LET text == f.files[idx.record_index_file] IN
                    text = <<>> \/ text[Len(text)] = "\n"]

NewGhost(f, mgr) ==
    [visited_articles |-> NewIndexGhost(f, mgr.visited_articles),
     failed_articles |-> NewIndexGhost(f, mgr.failed_articles),
     writes |-> 0,
     ops |-> 0,
     interrupted |-> FALSE,
     refused |-> FALSE,
     assigned |-> FALSE,
     starts |-> 0]

Call(op, raised, ret, m) == [op |-> op, raised |-> raised, ret |-> ret, m |-> m]

\* No call made yet.
NoCall == Call("none", "none", "None", 0)

(***************************************************************************)
(* Actions: the constructor and the BatchChunk calls.                      *)
(***************************************************************************)
\* BatchFileManager(data_folder=data_folder, previous_batch_folder=prev)
Construct(data_folder, prev) ==
    \E out \in BatchFileManager(fs, today, data_folder, prev) :
        /\ fs' = out.fs
        /\ mgrs' = IF out.raised = "none" THEN Append(mgrs, out.mgr[1]) ELSE mgrs
        /\ ghost' = IF out.raised = "none" THEN Append(ghost, NewGhost(out.fs, out.mgr[1])) ELSE ghost
        /\ last' = Call("BatchFileManager", out.raised, "None",
                        IF out.raised = "none" THEN Len(mgrs) + 1 ELSE 0)
        /\ previous_batch_folder' = prev
        /\ UNCHANGED <<today, now>>

\* mgrs[m].active_chunk.write_line_to_results_file(line, file)
CallWriteLine(m) ==
    LET c == mgrs[m].active_chunk
        r == WriteLineToResultsFile(fs, mgrs[m].chunks[c])
    IN /\ fs' = r.fs
       /\ mgrs' = [mgrs EXCEPT ![m].chunks[c] = r.obj]
       /\ ghost' = [ghost EXCEPT ![m].writes = @ + 1,
                                 ![m].refused = @ \/ r.ret = "False"]
       /\ last' = Call("write_line_to_results_file", "none", r.ret, m)
       /\ UNCHANGED <<today, now, previous_batch_folder>>

\* mgrs[m].active_chunk.finish_chunk()
CallFinishChunk(m) ==
    LET c == mgrs[m].active_chunk
        r == FinishChunk(mgrs[m].chunks[c], now)
    IN /\ mgrs' = [mgrs EXCEPT ![m].chunks[c] = r.obj]
       /\ last' = Call("finish_chunk", "none", r.ret, m) @@ [pre |-> mgrs[m].chunks[c]]
       /\ UNCHANGED <<today, now, fs, ghost, previous_batch_folder>>

\* mgrs[m].active_chunk.time_start = t, the caller's assignment
AssignTimeStart(m, t) ==
    LET c == mgrs[m].active_chunk IN
    /\ mgrs' = [mgrs EXCEPT ![m].chunks[c].time_start = Some(t)]
    /\ ghost' = [ghost EXCEPT ![m].assigned = TRUE]
    /\ last' = Call("time_start", "none", "None", m)
    /\ UNCHANGED <<today, now, fs, previous_batch_folder>>

\* mgrs[m].start_batch_run()
CallStartBatchRun(m) ==
    /\ mgrs' = [mgrs EXCEPT ![m] = StartBatchRun(@, now)]
    /\ ghost' = [ghost EXCEPT ![m].starts = IF @ < MaxStarts THEN @ + 1 ELSE @]
    /\ last' = Call("start_batch_run", "none", "None", m) @@ [pre |-> mgrs[m], at |-> now]
    /\ UNCHANGED <<today, now, fs, previous_batch_folder>>

\* Time passes.
Tick ==
    /\ now < MaxTime
    /\ now' = now + 1
    /\ UNCHANGED <<today, fs, mgrs, ghost, last, previous_batch_folder>>

(***************************************************************************)
(* Actions: the RecordIndex calls, on index l of manager m.                *)
(***************************************************************************)
Ledgers == {"visited_articles", "failed_articles"}

Keys == { <<"x">>, <<>>, <<"x", "\n", "y">> }

RECURSIVE SumOps(_)
SumOps(g) == IF g = <<>> THEN 0 ELSE g[1].ops + SumOps(Tail(g))

\* The RecordIndex calls made so far, on all managers.
OpsMade == SumOps(ghost)

\* mgrs[m].<l>.add_record(record_to_add, write_to_file)
CallAddRecord(m, l, record_to_add, write_to_file) ==
    LET r == AddRecord(fs, mgrs[m][l], record_to_add, write_to_file) IN
    /\ fs' = r.fs
    /\ mgrs' = [mgrs EXCEPT ![m][l] = r.obj]
    /\ ghost' = [ghost EXCEPT ![m][l].passed = @ \cup {record_to_add},
                              ![m][l].calls = @ + 1,
                              ![m][l].flushed = IF write_to_file THEN @ \cup {record_to_add} ELSE @,
                              ![m][l].unwritten = @ \/ ~write_to_file,
                              ![m][l].unflushed = @ \/ ~write_to_file,
                              ![m].ops = @ + 1]
    /\ last' = Call("add_record", "none", "None", m) @@ [ledger |-> l]
    /\ UNCHANGED <<today, now, previous_batch_folder>>

\* mgrs[m].<l>.add_multiple_records(records_to_add, write_to_file), the set
\* iterated in order o.
CallAddMultipleRecords(m, l, o, write_to_file) ==
    LET r == AddMultipleRecords(fs, mgrs[m][l], o, write_to_file) IN
    /\ fs' = r.fs
    /\ mgrs' = [mgrs EXCEPT ![m][l] = r.obj]
    /\ ghost' = [ghost EXCEPT ![m][l].passed = @ \cup Range(o),
                              ![m][l].calls = @ + 1,
                              ![m][l].flushed = IF write_to_file THEN @ \cup Range(o) ELSE @,
                              ![m][l].unwritten = @ \/ (~write_to_file /\ o # <<>>),
                              ![m][l].unflushed = @ \/ (~write_to_file /\ o # <<>>),
                              ![m].ops = @ + 1]
    /\ last' = Call("add_multiple_records", "none", "None", m) @@ [ledger |-> l]
    /\ UNCHANGED <<today, now, previous_batch_folder>>

\* mgrs[m].<l>.finish_batch(), self.records iterated in order o.
CallFinishBatch(m, l, o) ==
    LET r == FinishBatch(fs, mgrs[m][l], o) IN
    /\ fs' = r.fs
    /\ mgrs' = [mgrs EXCEPT ![m][l] = r.obj]
    /\ ghost' = [ghost EXCEPT ![m][l].flushed = @ \cup mgrs[m][l].records,
                              ![m][l].unflushed = FALSE,
                              ![m][l].finished = @ + 1,
                              ![m].ops = @ + 1]
    /\ last' = Call("finish_batch", "none", "None", m)
                 @@ [ledger |-> l, pre |-> mgrs[m][l], pre_fs |-> fs]
    /\ UNCHANGED <<today, now, previous_batch_folder>>

\* The process stops inside mgrs[m].<l>.finish_batch(): after shutil.move and
\* before the live file is opened again (written = None), or after the first
\* written[1] characters of the rewrite reached the file.
InterruptFinishBatch(m, l, o, written) ==
    LET idx == mgrs[m][l]
        whole == FinishBatch(fs, idx, o)
        moved == Without(whole.fs.files, idx.record_index_file)
    IN /\ ~ghost[m].interrupted
       /\ fs' = IF written = None
                THEN [whole.fs EXCEPT !.files = moved]
                ELSE WriteFile(whole.fs, idx.record_index_file,
                               SubSeq(LinesText(o), 1, written[1]))
       /\ ghost' = [ghost EXCEPT ![m].interrupted = TRUE, ![m].ops = @ + 1]
       /\ last' = Call("finish_batch", "interrupted", "None", m)
                    @@ [ledger |-> l, pre |-> idx, pre_fs |-> fs]
       /\ UNCHANGED <<today, now, mgrs, previous_batch_folder>>

\* The process stops inside _save_specified_records_to_file, the first
\* `written` characters of the line appended.
InterruptSaveSpecifiedRecords(m, l, record_to_add, written) ==
    LET idx == mgrs[m][l] IN
    /\ ~ghost[m].interrupted
    /\ fs' = AppendFile(fs, idx.record_index_file,
                        SubSeq(LinesText(<<record_to_add>>), 1, written))
    /\ ghost' = [ghost EXCEPT ![m].interrupted = TRUE, ![m].ops = @ + 1]
    /\ last' = Call("add_record", "interrupted", "None", m)
                 @@ [ledger |-> l, pre |-> idx, pre_fs |-> fs]
    /\ UNCHANGED <<today, now, mgrs, previous_batch_folder>>

\* The date changes.
NextDay ==
    /\ today < MaxDays
    /\ today' = today + 1
    /\ UNCHANGED <<now, fs, mgrs, ghost, last, previous_batch_folder>>

(***************************************************************************)
(* SpecChunk: one manager constructed on an empty data folder, then any    *)
(* BatchChunk calls on its chunk and start_batch_run calls on the manager  *)
(* while time passes; at most MaxWrites lines are written.                 *)
(* SpecCapacity: the same start, the chunk written up to its capacity and  *)
(* MaxRefused calls beyond, at one instant; start_batch_run is called on   *)
(* the full chunk.                                                         *)
(***************************************************************************)
InitChunk ==
    \E out \in BatchFileManager(EmptyFs, 1, Some(DataRoot), None) :
        /\ today = 1
        /\ now = 0
        /\ fs = out.fs
        /\ mgrs = <<out.mgr[1]>>
        /\ ghost = <<NewGhost(out.fs, out.mgr[1])>>
        /\ last = Call("BatchFileManager", "none", "None", 1)
        /\ previous_batch_folder = None

NextChunk ==
    \/ \E m \in 1..Len(mgrs) : ghost[m].writes < MaxWrites /\ CallWriteLine(m)
    \/ \E m \in 1..Len(mgrs) : CallFinishChunk(m)
    \/ \E m \in 1..Len(mgrs) : \E t \in 0..MaxTime : AssignTimeStart(m, t)
    \/ \E m \in 1..Len(mgrs) : CallStartBatchRun(m)
    \/ Tick

SpecChunk == InitChunk /\ [][NextChunk]_vars

NextCapacity ==
    \/ \E m \in 1..Len(mgrs) :
          ghost[m].writes < MAX_LINES_RESULTS_FILE + MaxRefused /\ CallWriteLine(m)
    \/ \E m \in 1..Len(mgrs) : CallFinishChunk(m)
    \/ \E m \in 1..Len(mgrs) :
          /\ mgrs[m].chunks[mgrs[m].active_chunk].time_start = None
          /\ AssignTimeStart(m, now)
    \/ \E m \in 1..Len(mgrs) :
          /\ mgrs[m].chunks[mgrs[m].active_chunk].number_of_lines = MAX_LINES_RESULTS_FILE
          /\ CallStartBatchRun(m)

SpecCapacity == InitChunk /\ [][NextCapacity]_vars

(***************************************************************************)
(* Spec: batches opened one after another on one data folder, over several *)
(* days, from a file system that earlier runs (or nobody) left behind.     *)
(***************************************************************************)
Staging == PathJoin(DataRoot, S_staging)

Name_20240101_batch_1 == StrfTimeYmd(1) \o S_batch_ \o <<"1">>
Name_20240101_batch_2 == StrfTimeYmd(1) \o S_batch_ \o <<"2">>
Name_20240102_batch_02 == StrfTimeYmd(2) \o S_batch_ \o <<"0", "2">>
Name_20240101_batch_0 == StrfTimeYmd(1) \o S_batch_ \o <<"0">>
Name_notes == <<"n", "o", "t", "e", "s">>
Name_old_batch_5 == <<"o", "l", "d">> \o S_batch_ \o <<"5">>
Name_20240101_batch_3_lf == StrfTimeYmd(1) \o S_batch_ \o <<"3", "\n">>

\* f with the folders `names` under staging.
RECURSIVE WithFolders(_, _)
WithFolders(f, names) ==
    IF names = <<>> THEN f
    ELSE WithFolders(MakeDirs(f, PathJoin(Staging, names[1])).fs, Tail(names))

\* No data folder yet.
FsNew == EmptyFs

\* Two batches of day 1 and a folder that is no batch folder; batch 2 holds a
\* visited ledger with a blank line and an unterminated last line, and no
\* failed ledger.
FsTwoBatches ==
    LET f0 == WithFolders(EmptyFs, <<Name_20240101_batch_1, Name_20240101_batch_2, Name_notes>>)
        f1 == WriteFile(f0, PathJoin(PathJoin(Staging, Name_20240101_batch_1), VisitedFile),
                        <<"y", "\n">>)
        f2 == WriteFile(f1, PathJoin(PathJoin(Staging, Name_20240101_batch_1), FailedFile), <<>>)
    IN WriteFile(f2, PathJoin(PathJoin(Staging, Name_20240101_batch_2), VisitedFile),
                 <<"x", "\n", "\n", "y">>)

\* One batch of day 1 whose visited ledger ends with a line feed, as every
\* ledger file the program writes does, and no failed ledger.
FsOneBatch ==
    WriteFile(WithFolders(EmptyFs, <<Name_20240101_batch_1>>),
              PathJoin(PathJoin(Staging, Name_20240101_batch_1), VisitedFile), <<"y", "\n">>)

\* Folders whose names are at the edges of the two patterns.
FsOddNames ==
    WithFolders(EmptyFs, <<Name_20240101_batch_0, Name_old_batch_5, Name_20240101_batch_3_lf,
                           Name_20240101_batch_2, Name_20240102_batch_02>>)

InitialFileSystems == {FsNew, FsTwoBatches, FsOddNames}

\* The data_folder arguments that name the data folder /w/data.
DataPaths == {DataRoot, Cwd}

Init ==
    /\ today = 1
    /\ now = 0
    /\ fs \in InitialFileSystems
    /\ mgrs = <<>>
    /\ ghost = <<>>
    /\ last = NoCall
    /\ previous_batch_folder = None

\* The folders of the staging folder, each a path a caller may name as previous.
StagingFolders == {x \in fs.dirs : x # Staging /\ Dirname(x) = Staging}

Next ==
    \/ Len(mgrs) < MaxBatches /\ \E d \in DataPaths : Construct(Some(d), None)
    \/ Len(mgrs) < MaxBatches /\ \E p \in StagingFolders : Construct(None, Some(p))
    \/ NextDay

Spec == Init /\ [][Next]_vars

(***************************************************************************)
(* SpecLedger: within one day, on a data folder that is new or holds two   *)
(* batches, managers constructed and RecordIndex calls made on them.       *)
(***************************************************************************)
InitLedger ==
    /\ today = 1
    /\ now = 0
    /\ fs \in {FsNew, FsOneBatch, FsTwoBatches}
    /\ mgrs = <<>>
    /\ ghost = <<>>
    /\ last = NoCall
    /\ previous_batch_folder = None

NextLedger ==
    \/ Len(mgrs) < MaxOpens /\ Construct(Some(DataRoot), None)
    \/ Len(mgrs) < MaxOpens /\ \E p \in StagingFolders : Construct(None, Some(p))
    \/ /\ OpsMade < MaxLedgerOps
       /\ \E m \in 1..Len(mgrs), l \in Ledgers, k \in Keys, w \in BOOLEAN :
              CallAddRecord(m, l, k, w)
    \/ /\ OpsMade < MaxLedgerOps
       /\ \E m \in 1..Len(mgrs), l \in Ledgers, S \in SUBSET Keys, w \in BOOLEAN :
              \E o \in Orders(S) : CallAddMultipleRecords(m, l, o, w)
    \/ /\ OpsMade < MaxLedgerOps
       /\ \E m \in 1..Len(mgrs), l \in Ledgers :
              \E o \in Orders(mgrs[m][l].records) : CallFinishBatch(m, l, o)

SpecLedger == InitLedger /\ [][NextLedger]_vars

(***************************************************************************)
(* SpecSeed: batches opened one after another from one earlier batch, with *)
(* RecordIndex calls that write to the file and result lines written on    *)
(* any of them in any order.                                               *)
(***************************************************************************)
InitSeed ==
    /\ today = 1
    /\ now = 0
    /\ fs = FsOneBatch
    /\ mgrs = <<>>
    /\ ghost = <<>>
    /\ last = NoCall
    /\ previous_batch_folder = None

NextSeed ==
    \/ Len(mgrs) < MaxOpens /\ Construct(Some(DataRoot), None)
    \/ /\ OpsMade < MaxLedgerOps
       /\ \E m \in 1..Len(mgrs), l \in Ledgers, k \in Keys : CallAddRecord(m, l, k, TRUE)
    \/ /\ OpsMade < MaxLedgerOps
       /\ \E m \in 1..Len(mgrs), l \in Ledgers, S \in SUBSET Keys :
              \E o \in Orders(S) : CallAddMultipleRecords(m, l, o, TRUE)
    \/ /\ OpsMade < MaxLedgerOps
       /\ \E m \in 1..Len(mgrs), l \in Ledgers :
              \E o \in Orders(mgrs[m][l].records) : CallFinishBatch(m, l, o)
    \/ \E m \in 1..Len(mgrs) : ghost[m].writes < MaxSeedWrites /\ CallWriteLine(m)

SpecSeed == InitSeed /\ [][NextSeed]_vars

(***************************************************************************)
(* SpecInterrupt: as SpecLedger from one earlier batch, and the process    *)
(* that holds a manager may stop inside finish_batch or inside the append  *)
(* of add_record; a stopped manager makes no further call.                 *)
(***************************************************************************)
NextInterrupt ==
    \/ Len(mgrs) < MaxOpens /\ Construct(Some(DataRoot), None)
    \/ /\ OpsMade < MaxLedgerOps
       /\ \E m \in 1..Len(mgrs), l \in Ledgers, k \in Keys, w \in BOOLEAN :
              ~ghost[m].interrupted /\ CallAddRecord(m, l, k, w)
    \/ /\ OpsMade < MaxLedgerOps
       /\ \E m \in 1..Len(mgrs), l \in Ledgers :
              /\ ~ghost[m].interrupted
              /\ \E o \in Orders(mgrs[m][l].records) : CallFinishBatch(m, l, o)
    \/ /\ OpsMade < MaxLedgerOps
       /\ \E m \in 1..Len(mgrs), l \in Ledgers :
              \E o \in Orders(mgrs[m][l].records) :
                  \E written \in {None} \cup {Some(c) : c \in 0..(Len(LinesText(o)) - 1)} :
                      InterruptFinishBatch(m, l, o, written)
    \/ /\ OpsMade < MaxLedgerOps
       /\ \E m \in 1..Len(mgrs), l \in Ledgers, k \in Keys :
              \E written \in 0..Len(k) : InterruptSaveSpecifiedRecords(m, l, k, written)

SpecInterrupt == InitSeed /\ [][NextInterrupt]_vars

(***************************************************************************)
(* SpecPath: _set_up_from_previous_batch_folder applied to every path put  *)
(* together from at most MaxPieces pieces.                                 *)
(***************************************************************************)
PathPieces ==
    { <<"x">>, <<"/">>, <<"_">>, S_batch_, <<"3">>, <<"0">>, <<"1", "9">>, <<"\n">>,
      <<"/", "w", "/", "d", "a", "t", "a", "/", "s", "t", "a", "g", "i", "n", "g", "/",
        "2", "0", "2", "4", "0", "1", "0", "1">> }

PathInputs == { Flatten(ps) : ps \in UNION { [1..n -> PathPieces] : n \in 0..MaxPieces } }

InitPath ==
    /\ previous_batch_folder \in { Some(p) : p \in PathInputs }
    /\ today = 1
    /\ now = 0
    /\ fs = EmptyFs
    /\ mgrs = <<>>
    /\ ghost = <<>>
    /\ last = NoCall

CallSetUpFromPreviousBatchFolder ==
    /\ last.op = "none"
    /\ previous_batch_folder # None
    /\ last' = [op |-> "_set_up_from_previous_batch_folder"]
                 @@ SetUpFromPreviousBatchFolder(previous_batch_folder[1])
    /\ UNCHANGED <<today, now, fs, mgrs, ghost, previous_batch_folder>>

NextPath == CallSetUpFromPreviousBatchFolder

SpecPath == InitPath /\ [][NextPath]_vars

\* The digit string d of a segment that ends in _batch_<d>, or None.
BatchSuffixDigits(seg) ==
    LET ks == {k \in 1..Len(seg) :
                  /\ AllDigits(SubSeq(seg, Len(seg) - k + 1, Len(seg)))
                  /\ Len(seg) - k >= 7
                  /\ SubSeq(seg, Len(seg) - k - 6, Len(seg) - k) = S_batch_}
    IN IF ks = {} THEN None
       ELSE Some(SubSeq(seg, Len(seg) - (CHOOSE k \in ks : TRUE) + 1, Len(seg)))

\* C1: a previous batch folder whose last '/'-separated segment ends in _batch_<d>
\* gives batch number int(d) + 1; any other path makes the set-up raise ValueError
\* with no batch number assigned.
C1_NumberOrValueError ==
    last.op = "_set_up_from_previous_batch_folder" =>
        LET d == BatchSuffixDigits(LastSegment(previous_batch_folder[1])) IN
        IF d # None
        THEN last.raised = "none" /\ last.batch_number = Some(DecimalValue(d[1]) + 1)
        ELSE last.raised = "ValueError" /\ last.batch_number = None

\* C1, the half the code keeps: every segment ending in _batch_<d> gives int(d) + 1.
C1_MatchingGivesNext ==
    last.op = "_set_up_from_previous_batch_folder" =>
        LET d == BatchSuffixDigits(LastSegment(previous_batch_folder[1])) IN
        d # None => last.raised = "none" /\ last.batch_number = Some(DecimalValue(d[1]) + 1)

(***************************************************************************)
(* BatchChunk: capacity, finish_chunk.                                     *)
(***************************************************************************)
ActiveChunk(m) == mgrs[m].chunks[mgrs[m].active_chunk]

\* C5: number_of_lines never exceeds MAX_LINES_RESULTS_FILE; of the write calls
\* made on a new chunk exactly the first MAX_LINES_RESULTS_FILE return true, each
\* adding one line to the file and one to number_of_lines; every call on a full
\* chunk returns false and changes neither the file nor number_of_lines.
C5_CapacityBound ==
    \A m \in 1..Len(mgrs) :
        LET chunk == ActiveChunk(m)
            calls == ghost[m].writes
        IN /\ chunk.number_of_lines <= MAX_LINES_RESULTS_FILE
           /\ chunk.number_of_lines =
                  IF calls <= MAX_LINES_RESULTS_FILE THEN calls ELSE MAX_LINES_RESULTS_FILE
           /\ fs.jsonl[chunk.results_file] = chunk.number_of_lines
           /\ (last.op = "write_line_to_results_file" /\ last.m = m) =>
                  last.ret = IF calls <= MAX_LINES_RESULTS_FILE THEN "True" ELSE "False"

\* A full chunk has refused a second write.
C5_Witness ==
    /\ last.op = "write_line_to_results_file"
    /\ last.ret = "False"
    /\ ghost[1].writes = MAX_LINES_RESULTS_FILE + 2
    /\ ActiveChunk(1).number_of_lines = MAX_LINES_RESULTS_FILE

\* C6: finish_chunk on a finished chunk, or on one whose time_start was never
\* assigned, returns false and changes nothing of the chunk; on a started,
\* unfinished chunk it returns true, sets is_finished and sets
\* time_elapsed = time_end - time_start.
C6_FinishChunkTransitions ==
    last.op = "finish_chunk" =>
        LET pre == last.pre
            post == ActiveChunk(last.m)
        IN IF pre.is_finished \/ pre.time_start = None
           THEN last.ret = "False" /\ post = pre
           ELSE /\ last.ret = "True"
                /\ post.is_finished
                /\ post.time_end = Some(now) \/ now > post.time_end[1]
                /\ post.time_elapsed = Some(post.time_end[1] - pre.time_start[1])
                /\ post.time_start = pre.time_start
                /\ post.number_of_lines = pre.number_of_lines

\* finish_chunk was refused on a chunk never started, which stays unfinished.
C6_Witness ==
    /\ last.op = "finish_chunk"
    /\ last.ret = "False"
    /\ last.pre.time_start = None
    /\ ~ActiveChunk(last.m).is_finished
    /\ ActiveChunk(last.m).number_of_lines > 0

\* C7: is_finished only ever goes from false to true, it becomes true only from
\* a state in which time_start is set, and once it is true is_finished, time_end
\* and time_elapsed never change.
C7_FinishedIsTerminal ==
    [][\A m \in 1..Len(mgrs) :
          LET c == ActiveChunk(m)
              d == mgrs'[m].chunks[mgrs'[m].active_chunk]
          IN /\ c.is_finished =>
                    d.is_finished /\ d.time_end = c.time_end /\ d.time_elapsed = c.time_elapsed
             /\ (~c.is_finished /\ d.is_finished) => c.time_start # None]_vars

\* A finished chunk was asked to finish again at a later instant, after a write.
C7_Witness ==
    /\ last.op = "finish_chunk"
    /\ last.ret = "False"
    /\ last.pre.is_finished
    /\ now > last.pre.time_end[1]
    /\ ActiveChunk(last.m).number_of_lines > 0

(***************************************************************************)
(* BatchFileManager: the batch number.                                     *)
(***************************************************************************)
\* The last call constructed a BatchFileManager, mgrs[last.m].
JustConstructed == last.op = "BatchFileManager" /\ last.raised = "none"

\* The names of the folders the staging folder held before mgrs[m] made its own.
FoldersBefore(m) == {Basename(x) : x \in StagingFolders \ {mgrs[m].batch_folder}}

\* t is eight digits, _batch_, and one digit or more.
BatchNameShape(t) ==
    /\ Len(t) >= 16
    /\ \A i \in (1..8) \cup (16..Len(t)) : t[i] \in Digits
    /\ \A i \in 1..7 : t[8 + i] = S_batch_[i]

\* The name matches ^\d{8}_batch_\d+$ as Python matches it: `$` also matches
\* before a line feed that ends the name.
IsBatchFolderName(n) ==
    \/ BatchNameShape(n)
    \/ n # <<>> /\ n[Len(n)] = "\n" /\ BatchNameShape(SubSeq(n, 1, Len(n) - 1))

\* The numeric suffix of a batch folder name.
NumericSuffix(n) ==
    DecimalValue(SubSeq(n, 16, IF n[Len(n)] = "\n" THEN Len(n) - 1 ELSE Len(n)))

\* C2: constructed without a previous batch folder, the manager's batch number is
\* 1 + the largest numeric suffix among the staging folder names that match the
\* batch-folder pattern and its previous batch folder is a folder holding that
\* suffix; it is 1, with no previous batch folder, when no name matches.
C2_ScanTakesMaximum ==
    (JustConstructed /\ previous_batch_folder = None) =>
        LET B == mgrs[last.m]
            matching == {n \in FoldersBefore(last.m) : IsBatchFolderName(n)}
        IN IF matching = {}
           THEN B.batch_number = 1 /\ B.previous_batch_folder = None
           ELSE /\ \A n \in matching : NumericSuffix(n) + 1 <= B.batch_number
                /\ \E n \in matching :
                      /\ NumericSuffix(n) + 1 = B.batch_number
                      /\ B.previous_batch_folder = Some(PathJoin(Staging, n))

\* A scan that met two batch folders and a folder that is none took batch 3.
C2_Witness ==
    /\ JustConstructed
    /\ previous_batch_folder = None
    /\ mgrs[last.m].batch_number = 3
    /\ mgrs[last.m].previous_batch_folder = Some(PathJoin(Staging, Name_20240101_batch_2))
    /\ {Name_notes, Name_20240101_batch_1} \subseteq FoldersBefore(last.m)

\* C3: every batch folder newly made carries a number greater than that of every
\* batch folder the staging folder already held.
C3_NumbersStrictlyIncrease ==
    JustConstructed =>
        \A n \in FoldersBefore(last.m) :
            IsBatchFolderName(n) => mgrs[last.m].batch_number > NumericSuffix(n)

(***************************************************************************)
(* RecordIndex: the key set, seeding, loading.                             *)
(***************************************************************************)
NoLineBreak(k) == \A i \in 1..Len(k) : k[i] # "\n"

\* The managers whose batch folder is the previous batch folder of mgrs[m].
Predecessors(m) ==
    {a \in 1..Len(mgrs) :
        a # m /\ mgrs[m].previous_batch_folder = Some(mgrs[a].batch_folder)}

\* The lines of a text: the stretches free of line feeds that start at the
\* start of the text or after a line feed and end before a line feed or at the
\* end of the text; a line feed that ends the text starts no line.
LinesOf(text) ==
    {SubSeq(text, i, j) : <<i, j>> \in
        {p \in (1..Len(text)) \X (0..Len(text)) :
            /\ p[1] <= p[2] + 1
            /\ p[1] = 1 \/ text[p[1] - 1] = "\n"
            /\ p[2] = Len(text) \/ text[p[2] + 1] = "\n"
            /\ \A q \in p[1]..p[2] : text[q] # "\n"}}

\* C4, as claimed: the keys batch N+1 loads from batch N's folder contain every
\* key of batch N's in-memory key set.
C4_EveryMemoryKeyLoaded ==
    JustConstructed =>
        \A a \in Predecessors(last.m), l \in Ledgers :
            mgrs[a][l].records \subseteq mgrs[last.m][l].records

\* C4, amended: when batch N's ledger file, as batch N opened it, was empty or
\* ended with a line feed, the keys batch N+1 loads from batch N's folder contain
\* every key without a line break that batch N loaded at its own open, was handed
\* in an add call with write_to_file true, or held in memory when finish_batch
\* was called.
C4_EveryFlushedKeyLoaded ==
    JustConstructed =>
        \A a \in Predecessors(last.m), l \in Ledgers :
            ghost[a][l].terminated =>
                {k \in ghost[a][l].flushed : NoLineBreak(k)} \subseteq mgrs[last.m][l].records

\* Batch N, opened on a ledger file that ended with a line feed, added a key in
\* memory only, finished the batch, and batch N+1 loaded the key.
C4_Witness ==
    /\ JustConstructed
    /\ \E a \in Predecessors(last.m) :
          /\ ghost[a].visited_articles.terminated
          /\ ghost[a].visited_articles.loaded # {}
          /\ ~(ghost[a].visited_articles.passed \subseteq ghost[a].visited_articles.loaded)
          /\ ghost[a].visited_articles.unwritten
          /\ mgrs[a].visited_articles.is_batch_finished
          /\ ghost[a].visited_articles.passed # {}
          /\ ghost[a].visited_articles.passed \subseteq mgrs[last.m].visited_articles.records

\* C8: the in-memory key set is the keys loaded at open united with all keys
\* handed to add_record and add_multiple_records, whatever the order, the
\* repetitions and the write_to_file values; its size is the number of distinct keys.
C8_KeySetIsUnion ==
    \A m \in 1..Len(mgrs), l \in Ledgers :
        /\ mgrs[m][l].records = ghost[m][l].loaded \cup ghost[m][l].passed
        /\ Cardinality(mgrs[m][l].records)
               = Cardinality(ghost[m][l].loaded \cup ghost[m][l].passed)

\* An index seeded with keys was handed one key in two add calls.
C8_Witness ==
    \E m \in 1..Len(mgrs), l \in Ledgers :
        /\ ghost[m][l].calls = 2
        /\ Cardinality(ghost[m][l].passed) = 1
        /\ ghost[m][l].loaded # {}
        /\ ~(ghost[m][l].passed \subseteq ghost[m][l].loaded)
        /\ last.op = "add_record"

\* A's index l was opened with no previous batch and every add call on it wrote
\* to the file.
FreshAndWritten(a, l) ==
    mgrs[a].previous_batch_folder = None /\ ~ghost[a][l].unwritten

\* Seeded from a folder without the ledger file, the index is empty, file and keys.
EmptyWhenNoSource(m, l) ==
    (/\ mgrs[m].previous_batch_folder # None
     /\ PathJoin(mgrs[m].previous_batch_folder[1], mgrs[m][l].file_name) \notin DOMAIN fs.files)
        => /\ fs.files[mgrs[m][l].record_index_file] = <<>>
           /\ mgrs[m][l].records = {}

\* C9, as claimed: index A opened with no previous batch, the keys S added with
\* write_to_file true, index B then opened with A's folder as previous: B loads
\* exactly S, for every set S of keys; and a previous folder without the file
\* gives an empty file and an empty key set.
C9_RoundTripAnyKeys ==
    JustConstructed =>
        \A l \in Ledgers :
            /\ \A a \in Predecessors(last.m) :
                  FreshAndWritten(a, l) => mgrs[last.m][l].records = ghost[a][l].passed
            /\ EmptyWhenNoSource(last.m, l)

\* C9, amended: the same for every set S of keys none of which holds a line break.
C9_RoundTripKeysWithoutLineBreak ==
    JustConstructed =>
        \A l \in Ledgers :
            /\ \A a \in Predecessors(last.m) :
                  (FreshAndWritten(a, l) /\ \A k \in ghost[a][l].passed : NoLineBreak(k))
                      => mgrs[last.m][l].records = ghost[a][l].passed
            /\ EmptyWhenNoSource(last.m, l)

\* B loaded the two keys A had added, one of them the empty key.
C9_Witness ==
    /\ JustConstructed
    /\ \E a \in Predecessors(last.m) :
          /\ FreshAndWritten(a, "visited_articles")
          /\ ghost[a].visited_articles.passed = {<<"x">>, <<>>}
          /\ mgrs[last.m].visited_articles.records = {<<"x">>, <<>>}

\* C10, as claimed: the key set loaded at open is exactly the non-blank lines of
\* the ledger file, so the empty string is never a key right after open.
C10_BlankLinesExcluded ==
    JustConstructed =>
        \A l \in Ledgers :
            LET idx == mgrs[last.m][l] IN
            /\ idx.records = LinesOf(fs.files[idx.record_index_file]) \ {<<>>}
            /\ <<>> \notin idx.records

\* C10, what the code does: the key set loaded at open is exactly the lines of
\* the ledger file, the blank ones too: the empty string is a key exactly when
\* the file has a blank line.
C10_AllLinesLoaded ==
    JustConstructed =>
        \A l \in Ledgers :
            LET idx == mgrs[last.m][l] IN
            idx.records = LinesOf(fs.files[idx.record_index_file])

(***************************************************************************)
(* RecordIndex: finish_batch.                                              *)
(***************************************************************************)
\* The last call was finish_batch, on index FinishedIndex.
JustFinishedBatch == last.op = "finish_batch" /\ last.raised = "none"

FinishedIndex == mgrs[last.m][last.ledger]

\* The files finish_batch made that were not there before the call.
NewFiles == DOMAIN fs.files \ DOMAIN last.pre_fs.files

\* The lines of the text are the keys of S, each key on one line, exactly once.
OnePerLine(text, S) ==
    /\ Len(SplitLines(text)) = Cardinality(S)
    /\ Range(SplitLines(text)) = S

\* C11, as claimed: after finish_batch a new backup file in the batch folder,
\* other than the live file, holds what the live file held before the call; the
\* live file holds exactly the in-memory keys, one per line, each once; and the
\* in-memory key set is what it was.
C11_FinishBatchPostcondition ==
    JustFinishedBatch =>
        LET idx == FinishedIndex
            live == idx.record_index_file
        IN /\ \E b \in NewFiles :
                  /\ b # live
                  /\ Dirname(b) = idx.batch_folder
                  /\ fs.files[b] = last.pre_fs.files[live]
           /\ live \in DOMAIN fs.files
           /\ OnePerLine(fs.files[live], idx.records)
           /\ idx.records = last.pre.records

\* C11, amended: the same, the live file being the in-memory keys in some order,
\* each once and each followed by a line feed; its lines are exactly the keys,
\* one per line, when no key holds a line break.
C11_FinishBatchWritesEveryKeyOnce ==
    JustFinishedBatch =>
        LET idx == FinishedIndex
            live == idx.record_index_file
        IN /\ \E b \in NewFiles :
                  /\ b # live
                  /\ Dirname(b) = idx.batch_folder
                  /\ fs.files[b] = last.pre_fs.files[live]
           /\ live \in DOMAIN fs.files
           /\ \E o \in Orders(idx.records) : fs.files[live] = LinesText(o)
           /\ (\A k \in idx.records : NoLineBreak(k)) => OnePerLine(fs.files[live], idx.records)
           /\ idx.records = last.pre.records

\* finish_batch ran on an index that held a loaded key and a key added in memory
\* only: the backup holds the one line the file had, the live file both keys.
C11_Witness ==
    /\ JustFinishedBatch
    /\ FinishedIndex.records = {<<"x">>, <<"y">>}
    /\ last.pre_fs.files[FinishedIndex.record_index_file] = <<"y", "\n">>
    /\ fs.files[FinishedIndex.record_index_file] = <<"x", "\n", "y", "\n">>

\* C12: a finish_batch call on an index already finished is rejected: it reports
\* the refusal through its result and leaves the live file, the backup files and
\* the backup counter as they were.
C12_SecondFinishBatchRejected ==
    (JustFinishedBatch /\ last.pre.is_batch_finished) =>
        /\ last.ret # "None"
        /\ fs.files = last.pre_fs.files
        /\ FinishedIndex.number_of_files = last.pre.number_of_files

(***************************************************************************)
(* Batches beside each other: what a call on one leaves of the others.     *)
(***************************************************************************)
\* The paths of f, text files and result files, that lie outside folder d.
PathsOutside(f, d) == {p \in DOMAIN f.files \cup DOMAIN f.jsonl : Dirname(p) # d}

\* C13: a RecordIndex call or a result line written on one manager changes no
\* file, no set of files and no object of any other batch (so none of the batch
\* it was seeded from and none of a batch seeded from it), and opening a batch
\* changes no file that was there before.
C13_SeedingIsACopy ==
    [][/\ \A m \in 1..Len(mgrs) :
             (Len(mgrs') = Len(mgrs) /\ ghost'[m] # ghost[m]) =>
                 /\ \A n \in 1..Len(mgrs) : n # m => mgrs'[n] = mgrs[n]
                 /\ PathsOutside(fs', mgrs[m].batch_folder) = PathsOutside(fs, mgrs[m].batch_folder)
                 /\ \A p \in PathsOutside(fs, mgrs[m].batch_folder) :
                        /\ p \in DOMAIN fs.files => fs'.files[p] = fs.files[p]
                        /\ p \in DOMAIN fs.jsonl => fs'.jsonl[p] = fs.jsonl[p]
                 /\ fs'.dirs = fs.dirs
       /\ Len(mgrs') > Len(mgrs) =>
             /\ \A p \in DOMAIN fs.files : p \in DOMAIN fs'.files /\ fs'.files[p] = fs.files[p]
             /\ \A p \in DOMAIN fs.jsonl : p \in DOMAIN fs'.jsonl /\ fs'.jsonl[p] = fs.jsonl[p]
             /\ \A n \in 1..Len(mgrs) : mgrs'[n] = mgrs[n]]_vars

\* Batch N+1, seeded from batch N, wrote a key to its ledger and a result line,
\* and batch N then wrote another key to its own: the two ledgers differ.
C13_Witness ==
    /\ Len(mgrs) = 2
    /\ 1 \in Predecessors(2)
    /\ ghost[2].writes > 0
    /\ ghost[2].visited_articles.flushed # ghost[2].visited_articles.loaded
    /\ last.op = "add_record" /\ last.m = 1
    /\ ghost[1].visited_articles.flushed # ghost[1].visited_articles.loaded
    /\ mgrs[1].visited_articles.records # mgrs[2].visited_articles.records

(***************************************************************************)
(* BatchFileManager: opens that fail.                                      *)
(***************************************************************************)
\* C14: an open that fails with ValueError, the previous batch folder's name
\* being malformed, leaves the file system as it was: no staging folder, batch
\* folder, ledger file or results file is made, and no manager either.
C14_ValueErrorLeavesNoTrace ==
    [][(last'.op = "BatchFileManager" /\ last'.raised = "ValueError")
          => fs' = fs /\ mgrs' = mgrs]_vars

\* After a batch was opened, an open naming the folder notes as previous failed
\* with ValueError.
C14_Witness ==
    /\ last.op = "BatchFileManager"
    /\ last.raised = "ValueError"
    /\ previous_batch_folder = Some(PathJoin(Staging, Name_notes))
    /\ Len(mgrs) > 0

\* The paths of f, text files and result files, that lie in folder d.
PathsIn(f, d) == {p \in DOMAIN f.files \cup DOMAIN f.jsonl : Dirname(p) = d}

\* The three files of the batch folder of manager B right after open.
FilesOfNewBatch(B) ==
    {PathJoin(B.batch_folder, VisitedFile),
     PathJoin(B.batch_folder, FailedFile),
     PathJoin(B.batch_folder,
              <<"b", "a", "t", "c", "h", "_">> \o IntToStr(B.batch_number) \o S_results
                  \o <<"1", ".", "j", "s", "o", "n", "l">>)}

\* C15: an open that meets its target folder <data_root>/staging/<today>_batch_<N>
\* fails with FileExistsError, makes no object and leaves every file as it was;
\* an open that succeeds made a folder of that name that was not there before,
\* holding exactly the two ledger files and the first results file.
C15_ExistingFolderNeverReused ==
    [][/\ (last'.op = "BatchFileManager" /\ last'.raised = "FileExistsError")
             => fs' = fs /\ mgrs' = mgrs
       /\ Len(mgrs') > Len(mgrs) =>
             LET B == mgrs'[Len(mgrs')] IN
             /\ B.batch_folder = PathJoin(PathJoin(B.data_folder, S_staging),
                                          StrfTimeYmd(today) \o S_batch_ \o IntToStr(B.batch_number))
             /\ B.batch_folder \notin fs.dirs
             /\ PathsIn(fs, B.batch_folder) = {}
             /\ B.batch_folder \in fs'.dirs
             /\ PathsIn(fs', B.batch_folder) = FilesOfNewBatch(B)
             /\ DOMAIN fs'.files \cap FilesOfNewBatch(B) # {}
             /\ \A p \in DOMAIN fs.files : p \in DOMAIN fs'.files /\ fs'.files[p] = fs.files[p]]_vars

\* On day 1 an open naming 20240101_batch_1 as previous met the folder
\* 20240101_batch_2, ledger included, and failed; nothing changed.
C15_Witness ==
    /\ last.op = "BatchFileManager"
    /\ last.raised = "FileExistsError"
    /\ today = 1
    /\ previous_batch_folder = Some(PathJoin(Staging, Name_20240101_batch_1))
    /\ fs = FsTwoBatches

(***************************************************************************)
(* RecordIndex: a process stopped in the middle of a call.                 *)
(***************************************************************************)
\* C16: when the process stopped inside a call on batch N's RecordIndex and the
\* next batch is opened with batch N's folder as previous, the keys it loads
\* contain every line batch N's live file held before that call began.
C16_InterruptionKeepsKeys ==
    [][(Len(mgrs') > Len(mgrs) /\ last.raised = "interrupted") =>
          LET B == mgrs'[Len(mgrs')]
              idx == mgrs[last.m][last.ledger]
          IN B.previous_batch_folder = Some(idx.batch_folder) =>
                 LinesOf(last.pre_fs.files[idx.record_index_file])
                     \subseteq B[last.ledger].records]_vars

(***************************************************************************)
(* BatchChunk: no rotation.                                                *)
(***************************************************************************)
\* C17: once write_line_to_results_file has returned false on a chunk every
\* later call on it returns false; the manager's chunk list holds the one chunk
\* numbered 1, whose results file is the only results file of the batch folder
\* and holds at most MAX_LINES_RESULTS_FILE lines.
C17_NoRotationRefusalAbsorbing ==
    \A m \in 1..Len(mgrs) :
        /\ Len(mgrs[m].chunks) = 1
        /\ mgrs[m].active_chunk = 1
        /\ mgrs[m].chunks[1].chunk_number = 1
        /\ {p \in DOMAIN fs.jsonl : Dirname(p) = mgrs[m].batch_folder}
               = {mgrs[m].chunks[1].results_file}
        /\ fs.jsonl[mgrs[m].chunks[1].results_file] <= MAX_LINES_RESULTS_FILE
        /\ (ghost[m].refused /\ last.op = "write_line_to_results_file" /\ last.m = m)
               => last.ret = "False"
        /\ ghost[m].refused =>
               mgrs[m].chunks[1].number_of_lines = MAX_LINES_RESULTS_FILE

\* After a refused write, start_batch_run and a finish_chunk, the chunk refused
\* another write.
C17_Witness ==
    /\ last.op = "write_line_to_results_file"
    /\ last.ret = "False"
    /\ ghost[1].writes = MAX_LINES_RESULTS_FILE + 2
    /\ mgrs[1].time_start # None
    /\ mgrs[1].chunks[1].is_finished

(***************************************************************************)
(* RecordIndex: the backup files of finish_batch.                          *)
(***************************************************************************)
\* The path <batch folder>/<base>_<n>.txt of the index's n-th file.
BackupFile(idx, n) ==
    PathJoin(idx.batch_folder,
             SplitChar(idx.file_name, ".")[1] \o <<"_">> \o IntToStr(n) \o <<".", "t", "x", "t">>)

\* The live file and the backup files 2..k+1 of an index.
LedgerFiles(idx, k) == {idx.record_index_file} \cup {BackupFile(idx, n) : n \in 2..(k + 1)}

\* C18: after k finish_batch calls on an index its backup counter is k + 1 and
\* the batch folder holds, for the index, the live file and the k backup files
\* <base>_2.txt .. <base>_<k+1>.txt and no other; the k-th call leaves what the
\* live file held in <base>_<k+1>.txt, a file that was not there before, and
\* changes no earlier backup.
C18_BackupNumbering ==
    /\ \A m \in 1..Len(mgrs) :
          /\ \A l \in Ledgers :
                 LET idx == mgrs[m][l]
                     k == ghost[m][l].finished
                 IN /\ idx.number_of_files = k + 1
                    /\ Cardinality(LedgerFiles(idx, k)) = k + 1
                    /\ LedgerFiles(idx, k) \subseteq DOMAIN fs.files
          /\ {p \in DOMAIN fs.files : Dirname(p) = mgrs[m].batch_folder}
                = UNION {LedgerFiles(mgrs[m][l], ghost[m][l].finished) : l \in Ledgers}
    /\ JustFinishedBatch =>
          LET idx == FinishedIndex
              k == ghost[last.m][last.ledger].finished
              live == idx.record_index_file
          IN /\ NewFiles = {BackupFile(idx, k + 1)}
             /\ fs.files[BackupFile(idx, k + 1)] = last.pre_fs.files[live]
             /\ \A p \in DOMAIN last.pre_fs.files \ {live} :
                    p \in DOMAIN fs.files /\ fs.files[p] = last.pre_fs.files[p]

\* A second finish_batch on one index: the folder holds <base>_2.txt and
\* <base>_3.txt with different contents beside the live file.
C18_Witness ==
    /\ JustFinishedBatch
    /\ ghost[last.m][last.ledger].finished = 2
    /\ FinishedIndex.number_of_files = 3
    /\ fs.files[BackupFile(FinishedIndex, 2)] # fs.files[BackupFile(FinishedIndex, 3)]

(***************************************************************************)
(* RecordIndex: the live file against the key set in memory.               *)
(***************************************************************************)
\* Every key handed to an add call on the index was free of line breaks.
OnlyPlainKeys(m, l) == \A k \in ghost[m][l].passed : NoLineBreak(k)

\* The last call was made on the index l of mgrs[m]: the constructor that made
\* mgrs[m], or a finish_batch that returned.
JustOpenedOrFinished(m, l) ==
    \/ JustConstructed /\ last.m = m
    \/ JustFinishedBatch /\ last.m = m /\ last.ledger = l

HoldersOfMaximum(m) ==
    LET matching == {n \in FoldersBefore(m) : IsBatchFolderName(n)} IN
    {a \in 1..(m - 1) :
        /\ mgrs[a].data_folder = mgrs[m].data_folder
        /\ Basename(mgrs[a].batch_folder) \in matching
        /\ \A n \in matching : NumericSuffix(n) <= mgrs[a].batch_number}

\* mgrs[m] took mgrs[a]'s folder as previous, the next number, and both ledgers
\* from mgrs[a]'s files.
FoundBy(a, m) ==
    /\ mgrs[m].previous_batch_folder = Some(mgrs[a].batch_folder)
    /\ mgrs[m].batch_number = mgrs[a].batch_number + 1
    /\ \A l \in Ledgers :
          /\ fs.files[mgrs[m][l].record_index_file] = fs.files[mgrs[a][l].record_index_file]
          /\ mgrs[m][l].records = LinesOf(fs.files[mgrs[a][l].record_index_file])

\* The folder of every manager is named eight digits, _batch_, digits, and
\* lies in the staging folder of the manager's data folder.
FolderWellNamed(m) ==
    /\ BatchNameShape(Basename(mgrs[m].batch_folder))
    /\ Dirname(mgrs[m].batch_folder) = PathJoin(mgrs[m].data_folder, S_staging)

\* C20: the folder a manager made is named after the batch-folder pattern and
\* lies directly in the staging folder of its data folder; a manager
\* constructed next without a previous batch folder, on the same data folder,
\* while that batch holds the largest number of the staging folder, takes that
\* batch's folder as previous, the next number, and both ledgers from its files.
C20_CreatedBatchFoundByNextScan ==
    /\ \A m \in 1..Len(mgrs) : FolderWellNamed(m)
    /\ (JustConstructed /\ previous_batch_folder = None) =>
           \A a \in HoldersOfMaximum(last.m) : FoundBy(a, last.m)

\* What holds of the code: the same when no other folder of the staging folder
\* carries the batch's number.
C20_FoundWhenNumberUnique ==
    /\ \A m \in 1..Len(mgrs) : FolderWellNamed(m)
    /\ (JustConstructed /\ previous_batch_folder = None) =>
           \A a \in HoldersOfMaximum(last.m) :
               (\A n \in FoldersBefore(last.m) :
                    (IsBatchFolderName(n) /\ NumericSuffix(n) = mgrs[a].batch_number)
                        => n = Basename(mgrs[a].batch_folder))
                   => FoundBy(a, last.m)

\* Batch 2 of day 2, made from batch 1 beside batch 2 of day 1, is not found:
\* the scan that follows takes batch 2 of day 1 as previous.
C20_Witness ==
    /\ JustConstructed
    /\ previous_batch_folder = None
    /\ last.m = 2
    /\ mgrs[1].batch_folder = PathJoin(Staging, StrfTimeYmd(2) \o S_batch_ \o IntToStr(2))
    /\ mgrs[1].previous_batch_folder = Some(PathJoin(Staging, Name_20240101_batch_1))
    /\ 1 \in HoldersOfMaximum(2)
    /\ mgrs[2].batch_number = 3
    /\ mgrs[2].previous_batch_folder = Some(PathJoin(Staging, Name_20240101_batch_2))
    /\ mgrs[2].visited_articles.records # mgrs[1].visited_articles.records

(***************************************************************************)
(* BatchFileManager: start_batch_run.                                      *)
(***************************************************************************)
\* C21: start_batch_run sets the manager's own time_start to the instant of the
\* call, whatever it held, and changes nothing else of the manager; as long as
\* no caller assigned the active chunk's time_start, it is unassigned and the
\* chunk unfinished however many start_batch_run calls were made, and
\* finish_chunk returns false.
C21_StartBatchRunDoesNotStartChunk ==
    /\ last.op = "start_batch_run" =>
           mgrs[last.m] = [last.pre EXCEPT !.time_start = Some(last.at)]
    /\ \A m \in 1..Len(mgrs) :
           ~ghost[m].assigned =>
               /\ ActiveChunk(m).time_start = None
               /\ ~ActiveChunk(m).is_finished
               /\ (last.op = "finish_chunk" /\ last.m = m) =>
                      last.ret = "False" /\ ActiveChunk(m) = last.pre

\* After two start_batch_run calls, the later one at instant 1, and no
\* assignment to the chunk, finish_chunk returned false at instant 2.
C21_Witness ==
    /\ last.op = "finish_chunk"
    /\ last.ret = "False"
    /\ ~ghost[last.m].assigned
    /\ ghost[last.m].starts = 2
    /\ mgrs[last.m].time_start = Some(1)
    /\ now = 2
    /\ ~ActiveChunk(last.m).is_finished

====
